---- MODULE Spec2Model ----
(***************************************************************************)
(* Model of the audio narration front-end: the TranslationCard component   *)
(* (handleGenerateAudio), the speech service adapter (generateSpeech) and  *)
(* the PCM/WAV codec it drives (decodeBase64, convertUint8ArrayToInt16Array,*)
(* pcmToWavBlob, and the header-skipping decoder of handlePlayAudio).       *)
(*                                                                         *)
(* Bytes are integers 0..255, samples integers -32768..32767.  A base64    *)
(* string is a sequence of symbols: 0..63 are the characters of the        *)
(* standard alphabet (by their sextet value), PadSym is '=' and BadSym is  *)
(* a character outside the alphabet.  A Blob is modelled by its bytes.     *)
(*                                                                         *)
(* utils/audioUtils is not among the source files: its three functions are *)
(* modelled from sections 4.1-4.3 of the specification.                    *)
(***************************************************************************)
EXTENDS Integers, Sequences, FiniteSets, TLC

VARIABLES
    isGeneratingAudio,  \* useState(false)
    audioInfo,          \* useState<AudioInfo | null>(null)
    error,              \* useState<string>('')
    audioContext,       \* module-level `let audioContext = null`
    inflight,           \* speech requests issued and not yet answered
    nGenerations,       \* history: invocations of handleGenerateAudio
    nRequests,          \* history: calls of ai.models.generateContent for speech
    nContextFailures,   \* history: invocations that threw before the request
    lastResp,           \* history: the service response handled last
    lastOutcome,        \* history: "none", "ok" or "failed" of the invocation that ended last
    raced,              \* history: an invocation started while another was outstanding
    nContexts,          \* history: AudioContext objects constructed
    isPlaying,          \* useState(false)
    playback,           \* handlePlayAudio in progress: where it is and what it holds
    codec,              \* the codec pipeline applied to one input, stage by stage
    audioFile,              \* App: useState<File | null>(null)
    isRecording,            \* App: useState(false)
    mediaRecorderRef,       \* App: useRef, 0 (null) or the number of a recorder
    audioChunksRef,         \* App: useRef, the chunks pushed (each by its recorder's number)
    mediaStreamRef,         \* App: useRef, 0 (null) or the number of a stream
    isLoadingTranscription, \* App: useState(false)
    transcription,          \* App: useState<string>('')
    isLoadingTranslation,   \* App: useState(false)
    selectedLanguage,       \* App: useState<Language | null>(null)
    translations,           \* App: useState<Translation[]>([])
    appError,               \* App: useState<string>('') (error)
    isDropdownOpen,         \* App: useState(false)
    micPending,             \* the getUserMedia calls awaiting their answer
    streams,                \* the streams obtained: "live" or "stopped" (tracks stopped)
    recorders,              \* recorder i, on stream i: "recording", "stopping", "inactive"
    transcribing,           \* the files of the transcription requests in flight
    translating,            \* the (text, language) of the translation requests in flight
    nTranscriptions,        \* history: transcription requests issued
    nTranslations,          \* history: translation requests issued
    orphaned                \* speech requests in flight whose card was unmounted

vars == <<isGeneratingAudio, audioInfo, error, audioContext, inflight,
          nGenerations, nRequests, nContextFailures, lastResp, lastOutcome,
          raced, nContexts, isPlaying, playback, codec,
          audioFile, isRecording, mediaRecorderRef, audioChunksRef, mediaStreamRef,
          isLoadingTranscription, transcription, isLoadingTranslation,
          selectedLanguage, translations, appError, isDropdownOpen, micPending,
          streams, recorders, transcribing, translating, nTranscriptions,
          nTranslations, orphaned>>

recordingVars == <<isRecording, mediaRecorderRef, audioChunksRef, mediaStreamRef,
                   micPending, streams, recorders>>

transcriptionVars == <<isLoadingTranscription, transcribing, nTranscriptions>>

translationVars == <<isLoadingTranslation, translating, nTranslations>>

appVars == <<audioFile, transcription, selectedLanguage, translations, appError,
             isDropdownOpen, recordingVars, transcriptionVars, translationVars>>

playVars == <<isPlaying, playback>>

cardVars == <<isGeneratingAudio, audioInfo, error, audioContext, inflight,
              nGenerations, nRequests, nContextFailures, lastResp, lastOutcome,
              raced, nContexts, playVars>>

-----------------------------------------------------------------------------
(* Bounds *)

\* longest byte sequence fed to the codec pipeline
MaxBytes == 4
\* longest PCM payload (in bytes) a service response carries in the card model
MaxPayloadBytes == 2
\* invocations of handleGenerateAudio in one behaviour
MaxGenerations == 3
\* speech requests outstanding at once when the handler is raced
MaxInFlight == 2
\* longest text that is not base64 among the service's payloads
MaxBase64Len == 4

ByteVals == {0, 1, 2, 127, 128, 255}
Rates == {-1, 0, 8000, 24000}
Chans == {0, 1, 2}

RECURSIVE SeqsUpTo(_, _)
SeqsUpTo(S, n) ==
    IF n = 0 THEN {<<>>}
    ELSE LET shorter == SeqsUpTo(S, n - 1)
         IN  shorter \cup {Append(s, x) : s \in {t \in shorter : Len(t) = n - 1}, x \in S}

-----------------------------------------------------------------------------
(* Results of operations that can throw *)

Ok(v) == [ok |-> TRUE, val |-> v, err |-> ""]
Err(m) == [ok |-> FALSE, val |-> <<>>, err |-> m]

-----------------------------------------------------------------------------
(* Base64: the service's encoding and decodeBase64 *)

PadSym == 64
BadSym == 65

\* The base64 text of a byte sequence, as the service places it in inlineData.data.
RECURSIVE B64Encode(_)
B64Encode(bytes) ==
    IF Len(bytes) = 0 THEN <<>>
    ELSE IF Len(bytes) = 1 THEN
        <<bytes[1] \div 4, (bytes[1] % 4) * 16, PadSym, PadSym>>
    ELSE IF Len(bytes) = 2 THEN
        <<bytes[1] \div 4,
          (bytes[1] % 4) * 16 + bytes[2] \div 16,
          (bytes[2] % 16) * 4,
          PadSym>>
    ELSE
        <<bytes[1] \div 4,
          (bytes[1] % 4) * 16 + bytes[2] \div 16,
          (bytes[2] % 16) * 4 + bytes[3] \div 64,
          bytes[3] % 64>>
        \o B64Encode(SubSeq(bytes, 4, Len(bytes)))

\* The number of trailing '=' of a base64 string (at most two count as padding).
PadCount(s) ==
    IF Len(s) >= 2 /\ s[Len(s)] = PadSym /\ s[Len(s) - 1] = PadSym THEN 2
    ELSE IF Len(s) >= 1 /\ s[Len(s)] = PadSym THEN 1
    ELSE 0

\* The bytes of full 4-symbol groups of alphabet symbols.
RECURSIVE B64Groups(_)
B64Groups(s) ==
    IF Len(s) < 4 THEN <<>>
    ELSE <<s[1] * 4 + s[2] \div 16,
           (s[2] % 16) * 16 + s[3] \div 4,
           (s[3] % 4) * 64 + s[4]>>
         \o B64Groups(SubSeq(s, 5, Len(s)))

decodeBase64(base64) ==
    LET n == Len(base64)
        pad == PadCount(base64)
        body == SubSeq(base64, 1, n - pad)
        full == (Len(body) \div 4) * 4
        rest == SubSeq(body, full + 1, Len(body))
        tail == IF Len(rest) = 3 THEN <<rest[1] * 4 + rest[2] \div 16,
                                        (rest[2] % 16) * 16 + rest[3] \div 4>>
                ELSE IF Len(rest) = 2 THEN <<rest[1] * 4 + rest[2] \div 16>>
                ELSE <<>>
    IN  IF n % 4 # 0 \/ (\E i \in 1..Len(body) : body[i] \notin 0..63)
        THEN Err("DecodeError")
        ELSE Ok(B64Groups(SubSeq(body, 1, full)) \o tail)

-----------------------------------------------------------------------------
(* Byte-to-sample conversion *)

Int16OfBytes(lo, hi) ==
    LET u == lo + 256 * hi
    IN  IF u >= 32768 THEN u - 65536 ELSE u

\* An Int16Array over a byte buffer: element i is bytes 2i, 2i+1 in the platform's
\* byte order, which is little-endian wherever a browser runs.
Int16View(bytes) ==
    [i \in 1..(Len(bytes) \div 2) |-> Int16OfBytes(bytes[2 * i - 1], bytes[2 * i])]

convertUint8ArrayToInt16Array(uint8) ==
    IF Len(uint8) % 2 # 0 THEN Err("MalformedAudioError")
    ELSE Ok(Int16View(uint8))

-----------------------------------------------------------------------------
(* WAV encoder *)

\* DataView.setUint16(offset, v, true) and setUint32(offset, v, true)
Uint16LE(v) == LET u == v % 65536 IN <<u % 256, u \div 256>>
\* (the low four bytes of v: the last % 256 is the wrap modulo 2^32)
Uint32LE(v) ==
    <<v % 256, (v \div 256) % 256, (v \div 65536) % 256, (v \div 16777216) % 256>>

RECURSIVE SamplesLE(_)
SamplesLE(pcm) ==
    IF Len(pcm) = 0 THEN <<>>
    ELSE Uint16LE(pcm[1]) \o SamplesLE(Tail(pcm))

TagRIFF == <<82, 73, 70, 70>>
TagWAVE == <<87, 65, 86, 69>>
TagFmt == <<102, 109, 116, 32>>
TagData == <<100, 97, 116, 97>>

WavHeader(sampleCount, sampleRate, numChannels) ==
    LET dataSize == sampleCount * numChannels * 2
    IN  TagRIFF \o Uint32LE(36 + dataSize) \o TagWAVE
        \o TagFmt \o Uint32LE(16) \o Uint16LE(1) \o Uint16LE(numChannels)
        \o Uint32LE(sampleRate) \o Uint32LE(sampleRate * numChannels * 2)
        \o Uint16LE(numChannels * 2) \o Uint16LE(16)
        \o TagData \o Uint32LE(dataSize)

pcmToWavBlob(pcmData, sampleRate, numChannels) ==
    IF sampleRate <= 0 \/ numChannels <= 0 THEN Err("InvalidAudioParametersError")
    ELSE Ok(WavHeader(Len(pcmData), sampleRate, numChannels) \o SamplesLE(pcmData))

-----------------------------------------------------------------------------
(* handlePlayAudio's decoder: skip the header, view the rest as Int16 *)

HeaderLen == 44

\* arrayBuffer.slice(44)
PcmData(arrayBuffer) ==
    IF Len(arrayBuffer) <= HeaderLen THEN <<>>
    ELSE SubSeq(arrayBuffer, HeaderLen + 1, Len(arrayBuffer))

\* Faulty variant: the remainder viewed as unsigned: new Uint16Array(pcmData)
PcmUint16(arrayBuffer) ==
    IF Len(PcmData(arrayBuffer)) % 2 # 0 THEN Err("RangeError")
    ELSE Ok([i \in 1..(Len(PcmData(arrayBuffer)) \div 2) |->
                PcmData(arrayBuffer)[2 * i - 1] + 256 * PcmData(arrayBuffer)[2 * i]])

\* new Int16Array(pcmData): a RangeError when the byte length is odd
PcmInt16(arrayBuffer) ==
    IF Len(PcmData(arrayBuffer)) % 2 # 0 THEN Err("RangeError")
    ELSE Ok(Int16View(PcmData(arrayBuffer)))

\* Amplitudes are exact fractions num/den in lowest terms with den > 0 (a 16-bit
\* integer over 32768 is exactly representable in the Float32Array it is stored in).
RECURSIVE Gcd(_, _)
Gcd(a, b) == IF b = 0 THEN a ELSE Gcd(b, a % b)

Abs(x) == IF x < 0 THEN -x ELSE x

Fraction(n, d) ==
    LET g == Gcd(Abs(n), d)
    IN  [num |-> n \div g, den |-> d \div g]

FullScale == 32768

\* Faulty variant: the sample divided by the largest positive sample
AmplitudeBy32767(sample) == Fraction(sample, FullScale - 1)

\* channelData[i] = pcmInt16[i] / 32768.0
Amplitude(sample) == Fraction(sample, FullScale)

\* audioContext.createBuffer(1, pcmData.byteLength / 2, 24000) throws for a length
\* of 0; otherwise the buffer's channel is filled from the Int16 view.
ChannelData(arrayBuffer) ==
    LET frames == Len(PcmData(arrayBuffer)) \div 2
        view == PcmInt16(arrayBuffer)
    IN  IF frames = 0 THEN Err("NotSupportedError")
        ELSE IF ~view.ok THEN view
        ELSE Ok([i \in 1..frames |-> Amplitude(view.val[i])])

-----------------------------------------------------------------------------
(* The remote speech service and generateSpeech *)

SpeechFailedMessage == "Generisanje glasa nije uspelo. Proverite konzolu za detalje."
\* (written here without the diacritic of the source's "sadrzaj")
NoAudioMessage == "Nije primljen audio sadrzaj od API-ja."
ContextErrorMessage == "NotSupportedError"

\* messages of the errors ai.models.generateContent rejects with
ServiceErrors == {"503 UNAVAILABLE", "429 RESOURCE_EXHAUSTED"}

\* A response of the service: kind "reject" (the call rejects with err), "noaudio"
\* (no inlineData in the first part), "audio" (data is the base64 text of the raw
\* bytes pcm) or "garbled" (data is not base64).  "none": no response.
Resp(kind, err, pcm, data) == [kind |-> kind, err |-> err, pcm |-> pcm, data |-> data]
NoResp == Resp("none", "", <<>>, <<>>)

\* Texts over a few symbols; those that are not base64 have a length that is no
\* multiple of 4, a character outside the alphabet, or a '=' that is not one of
\* the last two characters with only '=' after it.
B64Syms == {0, PadSym, BadSym}

IllFormedBase64(s) ==
    \/ Len(s) % 4 # 0
    \/ \E i \in 1..Len(s) :
         \/ s[i] = BadSym
         \/ s[i] = PadSym /\ (i < Len(s) - 1 \/ s[Len(s)] # PadSym)

MalformedBase64 == {s \in SeqsUpTo(B64Syms, MaxBase64Len) : IllFormedBase64(s)}

\* The card does not look into the bytes (the codec pipeline is run on all of
\* ByteVals): two byte values are enough for its payloads.
PayloadBytes == {1, 255}

Payloads == SeqsUpTo(PayloadBytes, MaxPayloadBytes)

Responses ==
    {Resp("reject", e, <<>>, <<>>) : e \in ServiceErrors}
    \cup {Resp("noaudio", "", <<>>, <<>>)}
    \cup {Resp("audio", "", p, B64Encode(p)) : p \in Payloads}
    \cup {Resp("garbled", "", <<>>, d) : d \in MalformedBase64}

\* The try block of generateSpeech: the awaited call, then the check of the payload.
SpeechTry(resp) ==
    IF resp.kind = "reject" THEN Err(resp.err)
    ELSE IF resp.kind = "noaudio" \/ resp.data = <<>> THEN Err(NoAudioMessage)
    ELSE Ok(resp.data)

\* Faulty variant: generateSpeech without the check of the payload
generateSpeechUnchecked(resp) ==
    IF resp.kind = "reject" THEN Err(SpeechFailedMessage) ELSE Ok(resp.data)

\* generateSpeech: whatever the try block throws is logged and replaced.
generateSpeech(resp) ==
    IF SpeechTry(resp).ok THEN SpeechTry(resp) ELSE Err(SpeechFailedMessage)

-----------------------------------------------------------------------------
(* handleGenerateAudio: the statements after the await *)

SampleRate == 24000
NumChannels == 1

PcmDataUint8(base64Audio) == decodeBase64(base64Audio)

\* Faulty variant: new Int16Array(pcmDataUint8): one sample per byte
PcmDataInt16Widened(pcmDataUint8) ==
    IF Len(pcmDataUint8) % 2 # 0 THEN Err("MalformedAudioError")
    ELSE Ok(pcmDataUint8)

\* Faulty variant: a view of the whole sample pairs, the odd last byte dropped
PcmDataInt16Truncating(pcmDataUint8) == Ok(Int16View(pcmDataUint8))

PcmDataInt16(pcmDataUint8) == convertUint8ArrayToInt16Array(pcmDataUint8)

\* Faulty variant: the call made with one channel too few
WavBlobNoChannel(pcmDataInt16) == pcmToWavBlob(pcmDataInt16, SampleRate, NumChannels - 1)

\* Faulty variant: the rate and the channel count swapped in the call
WavBlobSwapped(pcmDataInt16) == pcmToWavBlob(pcmDataInt16, NumChannels, SampleRate)

WavBlob(pcmDataInt16) == pcmToWavBlob(pcmDataInt16, SampleRate, NumChannels)

\* Faulty variant: the decoded bytes handed to the encoder as samples
BlobOfBase64Unconverted(base64Audio) ==
    LET u8 == PcmDataUint8(base64Audio)
    IN  IF ~u8.ok THEN u8
        ELSE IF ~PcmDataInt16(u8.val).ok THEN PcmDataInt16(u8.val)
        ELSE WavBlob(u8.val)

\* Faulty variant: a failure of decodeBase64 taken for an empty payload
BlobOfBase64DecodeIgnored(base64Audio) ==
    LET u8 == PcmDataUint8(base64Audio)
        i16 == PcmDataInt16(u8.val)
    IN  IF ~i16.ok THEN i16 ELSE WavBlob(i16.val)

\* From the base64 text to the blob, or the first error thrown on the way.
BlobOfBase64(base64Audio) ==
    LET u8 == PcmDataUint8(base64Audio)
        i16 == PcmDataInt16(u8.val)
    IN  IF ~u8.ok THEN u8
        ELSE IF ~i16.ok THEN i16
        ELSE WavBlob(i16.val)

\* The try block of handleGenerateAudio from the await on.
GenerateTry(resp) ==
    LET speech == generateSpeech(resp)
    IN  IF ~speech.ok THEN speech ELSE BlobOfBase64(speech.val)

\* audioInfo: null, or {url, blob}; the url of URL.createObjectURL is modelled by
\* the number of the answer that produced it.
Null == [isNull |-> TRUE, url |-> 0, blob |-> <<>>]
AudioInfo(url, blob) == [isNull |-> FALSE, url |-> url, blob |-> blob]

\* The generate button is rendered only without an artifact, and disabled while
\* a generation runs.
GenerateButtonEnabled == audioInfo.isNull /\ ~isGeneratingAudio

-----------------------------------------------------------------------------
(* The codec pipeline, one stage per step.  The encoder is applied twice: with a *)
(* rate and a channel count drawn from Rates and Chans (wav; stage "invalid"    *)
(* when it refuses them) and as the handler calls it (blob; stage "failed" when *)
(* any statement of the handler throws).                                        *)

CodecIdle ==
    [stage |-> "idle", raw |-> <<>>, base64Audio |-> <<>>, pcmDataUint8 |-> <<>>,
     pcmDataInt16 |-> <<>>, sampleRate |-> 0, numChannels |-> 0, wav |-> <<>>,
     blob |-> <<>>, pcmInt16 |-> <<>>, channelData |-> <<>>, err |-> ""]

CodecInputs ==
    {[CodecIdle EXCEPT !.stage = "base64", !.raw = b, !.base64Audio = B64Encode(b)] :
        b \in SeqsUpTo(ByteVals, MaxBytes)}
    \cup {[CodecIdle EXCEPT !.stage = "garbled", !.base64Audio = d] : d \in MalformedBase64}

CodecDecodeBase64 ==
    /\ codec.stage \in {"base64", "garbled"}
    /\ LET u8 == PcmDataUint8(codec.base64Audio)
       IN  codec' = IF u8.ok
                    THEN [codec EXCEPT !.stage = "bytes", !.pcmDataUint8 = u8.val]
                    ELSE [codec EXCEPT !.stage = "failed", !.err = u8.err]
    /\ UNCHANGED <<cardVars, appVars, orphaned>>

CodecConvert ==
    /\ codec.stage = "bytes"
    /\ LET i16 == PcmDataInt16(codec.pcmDataUint8)
       IN  codec' = IF i16.ok
                    THEN [codec EXCEPT !.stage = "samples", !.pcmDataInt16 = i16.val]
                    ELSE [codec EXCEPT !.stage = "failed", !.err = i16.err]
    /\ UNCHANGED <<cardVars, appVars, orphaned>>

CodecEncode ==
    /\ codec.stage = "samples"
    /\ \E r \in Rates, c \in Chans :
         LET wav == pcmToWavBlob(codec.pcmDataInt16, r, c)
             blob == BlobOfBase64(codec.base64Audio)
         IN  codec' = IF wav.ok /\ blob.ok
                      THEN [codec EXCEPT !.stage = "wav", !.sampleRate = r,
                                         !.numChannels = c, !.wav = wav.val,
                                         !.blob = blob.val]
                      ELSE [codec EXCEPT !.stage = IF blob.ok THEN "invalid" ELSE "failed",
                                         !.sampleRate = r, !.numChannels = c,
                                         !.err = IF blob.ok THEN wav.err ELSE blob.err]
    /\ UNCHANGED <<cardVars, appVars, orphaned>>

CodecPlayback ==
    /\ codec.stage = "wav"
    /\ codec' = [codec EXCEPT !.stage = "played", !.pcmInt16 = PcmInt16(codec.wav).val,
                             !.channelData = ChannelData(codec.wav).val,
                             !.err = ChannelData(codec.wav).err]
    /\ UNCHANGED <<cardVars, appVars, orphaned>>

-----------------------------------------------------------------------------
(* The card *)

\* handlePlayAudio: "idle", "reading" (awaiting blob.arrayBuffer()), "playing"
\* (the source was started) or "threw" (the statements after the await threw).
PlaybackIdle == [pc |-> "idle", blob |-> <<>>, channelData |-> <<>>]

\* The play button is rendered with an artifact, and disabled while playing.
PlayButtonEnabled == ~audioInfo.isNull /\ ~isPlaying

CardInit ==
    /\ isGeneratingAudio = FALSE
    /\ audioInfo = Null
    /\ error = ""
    /\ audioContext = "null"
    /\ inflight = 0
    /\ nGenerations = 0
    /\ nRequests = 0
    /\ nContextFailures = 0
    /\ lastResp = NoResp
    /\ lastOutcome = "none"
    /\ raced = FALSE
    /\ nContexts = 0
    /\ isPlaying = FALSE
    /\ playback = PlaybackIdle
    /\ orphaned = 0

\* Faulty variant: handleGenerateAudio without setError('')
GenerateRequestKeepsError ==
    /\ nGenerations < MaxGenerations
    /\ isGeneratingAudio' = TRUE
    /\ error' = error
    /\ audioInfo' = Null
    /\ audioContext' = "AudioContext"
    /\ inflight' = inflight + 1
    /\ nGenerations' = nGenerations + 1
    /\ nRequests' = nRequests + 1
    /\ raced' = (inflight > 0)
    /\ nContexts' = IF audioContext = "null" THEN nContexts + 1 ELSE nContexts
    /\ UNCHANGED <<nContextFailures, lastResp, lastOutcome, playVars, codec, appVars,
                   orphaned>>

\* Faulty variant: handleGenerateAudio constructing a context on every call
GenerateRequestNewContext ==
    /\ nGenerations < MaxGenerations
    /\ isGeneratingAudio' = TRUE
    /\ error' = ""
    /\ audioInfo' = Null
    /\ audioContext' = "AudioContext"
    /\ inflight' = inflight + 1
    /\ nGenerations' = nGenerations + 1
    /\ nRequests' = nRequests + 1
    /\ raced' = (inflight > 0)
    /\ nContexts' = nContexts + 1
    /\ UNCHANGED <<nContextFailures, lastResp, lastOutcome, playVars, codec, appVars,
                   orphaned>>

\* Faulty variant: handleGenerateAudio without setAudioInfo(null)
GenerateRequestKeepsArtifact ==
    /\ nGenerations < MaxGenerations
    /\ isGeneratingAudio' = TRUE
    /\ error' = ""
    /\ audioInfo' = audioInfo
    /\ audioContext' = "AudioContext"
    /\ inflight' = inflight + 1
    /\ nGenerations' = nGenerations + 1
    /\ nRequests' = nRequests + 1
    /\ raced' = (inflight > 0)
    /\ nContexts' = IF audioContext = "null" THEN nContexts + 1 ELSE nContexts
    /\ UNCHANGED <<nContextFailures, lastResp, lastOutcome, playVars, codec, appVars,
                   orphaned>>

\* handleGenerateAudio up to the await: the three setters, the lazily created
\* audio context, and the request generateSpeech issues.
GenerateRequest ==
    /\ nGenerations < MaxGenerations
    /\ isGeneratingAudio' = TRUE
    /\ error' = ""
    /\ audioInfo' = Null
    /\ audioContext' = "AudioContext"
    /\ inflight' = inflight + 1
    /\ nGenerations' = nGenerations + 1
    /\ nRequests' = nRequests + 1
    /\ raced' = (inflight > 0)
    /\ nContexts' = IF audioContext = "null" THEN nContexts + 1 ELSE nContexts
    /\ UNCHANGED <<nContextFailures, lastResp, lastOutcome, playVars, codec, appVars,
                   orphaned>>

\* handleGenerateAudio when the AudioContext constructor throws: the catch and
\* the finally run before anything is awaited, and no request is issued.
GenerateNoContext ==
    /\ nGenerations < MaxGenerations
    /\ audioContext = "null"
    /\ isGeneratingAudio' = FALSE
    /\ error' = ContextErrorMessage
    /\ audioInfo' = Null
    /\ nGenerations' = nGenerations + 1
    /\ nContextFailures' = nContextFailures + 1
    /\ lastResp' = NoResp
    /\ lastOutcome' = "failed"
    /\ raced' = (inflight > 0)
    /\ UNCHANGED <<audioContext, inflight, nRequests, nContexts, playVars, codec, appVars,
                   orphaned>>

handleGenerateAudio == GenerateRequest \/ GenerateNoContext

\* Faulty variant: a rejected request is issued again instead of being reported
GenerateSettleRetry(resp) ==
    LET result == GenerateTry(resp)
    IN  /\ inflight > 0
        /\ IF resp.kind = "reject"
           THEN /\ nRequests' = nRequests + 1
                /\ UNCHANGED <<audioInfo, error, isGeneratingAudio, inflight>>
           ELSE /\ IF result.ok
                   THEN /\ audioInfo' = AudioInfo(nRequests - inflight + 1, result.val)
                        /\ error' = error
                   ELSE /\ error' = result.err
                        /\ audioInfo' = audioInfo
                /\ isGeneratingAudio' = FALSE
                /\ inflight' = inflight - 1
                /\ nRequests' = nRequests
        /\ lastResp' = resp
        /\ lastOutcome' = IF result.ok THEN "ok" ELSE "failed"
        /\ UNCHANGED <<audioContext, nGenerations, nContextFailures, raced, nContexts,
                       playVars, codec, appVars, orphaned>>

\* The rest of handleGenerateAudio, run when the service answers.
GenerateSettle(resp) ==
    LET result == GenerateTry(resp)
    IN  /\ inflight > 0
        /\ IF result.ok
           THEN /\ audioInfo' = AudioInfo(nRequests - inflight + 1, result.val)
                /\ error' = error
           ELSE /\ error' = result.err
                /\ audioInfo' = audioInfo
        /\ isGeneratingAudio' = FALSE
        /\ inflight' = inflight - 1
        /\ lastResp' = resp
        /\ lastOutcome' = IF result.ok THEN "ok" ELSE "failed"
        /\ UNCHANGED <<audioContext, nGenerations, nRequests, nContextFailures, raced,
                       nContexts, playVars, codec, appVars, orphaned>>

SpeechResponse == \E resp \in Responses : GenerateSettle(resp)

\* The answers drawn when the handler is raced: every kind of response, with only
\* the one-character texts among those that are not base64.
RaceResponses == {r \in Responses : r.kind = "garbled" => Len(r.data) = 1}

RaceSpeechResponse == \E resp \in RaceResponses : GenerateSettle(resp)

\* A click on the play button: handlePlayAudio up to the await.  Without an
\* artifact or an audio context the handler returns at once.
handlePlayAudio ==
    /\ PlayButtonEnabled
    /\ IF audioInfo.isNull \/ audioContext = "null"
       THEN UNCHANGED playVars
       ELSE /\ isPlaying' = TRUE
            /\ playback' = [pc |-> "reading", blob |-> audioInfo.blob, channelData |-> <<>>]
    /\ UNCHANGED <<isGeneratingAudio, audioInfo, error, audioContext, inflight,
                   nGenerations, nRequests, nContextFailures, lastResp, lastOutcome,
                   raced, nContexts, codec, appVars, orphaned>>

\* handlePlayAudio after the await: the buffer is created and filled and the
\* source started; a throw rejects the handler's promise and nothing is reset.
PlayStart ==
    /\ playback.pc = "reading"
    /\ LET data == ChannelData(playback.blob)
       IN  playback' = IF data.ok
                       THEN [playback EXCEPT !.pc = "playing", !.channelData = data.val]
                       ELSE [playback EXCEPT !.pc = "threw"]
    /\ UNCHANGED <<isGeneratingAudio, audioInfo, error, audioContext, inflight,
                   nGenerations, nRequests, nContextFailures, lastResp, lastOutcome,
                   raced, nContexts, isPlaying, codec, appVars, orphaned>>

\* The promise of blob.arrayBuffer() rejects: the statements after the await do
\* not run, and nothing catches the rejection.
PlayReadFailed ==
    /\ playback.pc = "reading"
    /\ playback' = [playback EXCEPT !.pc = "threw"]
    /\ UNCHANGED <<isGeneratingAudio, audioInfo, error, audioContext, inflight,
                   nGenerations, nRequests, nContextFailures, lastResp, lastOutcome,
                   raced, nContexts, isPlaying, codec, appVars, orphaned>>

\* source.onended
PlayEnded ==
    /\ playback.pc = "playing"
    /\ isPlaying' = FALSE
    /\ playback' = PlaybackIdle
    /\ UNCHANGED <<isGeneratingAudio, audioInfo, error, audioContext, inflight,
                   nGenerations, nRequests, nContextFailures, lastResp, lastOutcome,
                   raced, nContexts, codec, appVars, orphaned>>

\* A card is unmounted: its state is gone, and what it still awaits no longer
\* reaches a mounted card.  The module-level audio context stays.
Unmount ==
    /\ isGeneratingAudio' = FALSE
    /\ audioInfo' = Null
    /\ error' = ""
    /\ inflight' = 0
    /\ orphaned' = orphaned + inflight
    /\ lastResp' = NoResp
    /\ lastOutcome' = "none"
    /\ raced' = FALSE
    /\ isPlaying' = FALSE
    /\ playback' = PlaybackIdle
    /\ UNCHANGED <<audioContext, nGenerations, nRequests, nContextFailures, nContexts>>

\* The list of translations is replaced: the card is unmounted and a new instance
\* mounted with fresh state.
CardRemount ==
    /\ nGenerations > 0
    /\ Unmount
    /\ UNCHANGED <<codec, appVars>>

\* The service answers a request of an unmounted card: the rest of
\* handleGenerateAudio runs, and its setters find no state to write.
OrphanResponse ==
    /\ orphaned > 0
    /\ orphaned' = orphaned - 1
    /\ UNCHANGED <<cardVars, codec, appVars>>

\* A click on the generate button.
ClickGenerate == GenerateButtonEnabled /\ handleGenerateAudio

\* handleGenerateAudio called whatever the button's state.
CallGenerate == inflight < MaxInFlight /\ handleGenerateAudio

-----------------------------------------------------------------------------
(* The App component *)

\* The recordings and the requests started in one run
MaxStarted == 3

FileNames == {"a.mp3", "b.mp3"}
Languages == {"en", "de"}
NoLanguage == "null"

MicrophoneMessage == "Nije moguce pristupiti mikrofonu. Proverite dozvole u pretrazivacu."
TranscribeFailedMessage == "Transkripcija nije uspela. Proverite konzolu za detalje."
TranslateFailedMessage == "Prevodenje nije uspelo. Proverite konzolu za detalje."

\* A File: none (null), one chosen in the file input, or the one a recorder's
\* onstop builds from the chunks collected.
NoFile == [kind |-> "none", name |-> "", chunks |-> <<>>]
Upload(name) == [kind |-> "upload", name |-> name, chunks |-> <<>>]
Recorded(chunks) == [kind |-> "recording", name |-> "snimak", chunks |-> chunks]

\* A text: the empty string, or what transcribeAudio answers for a file.
NoText == [empty |-> TRUE, of |-> NoFile]
TextOf(file) == [empty |-> FALSE, of |-> file]

\* What translateText answers for a text and one language.
Translation(text, lang) == [languageCode |-> lang, of |-> text]

AppInit ==
    /\ audioFile = NoFile
    /\ isRecording = FALSE
    /\ mediaRecorderRef = 0
    /\ audioChunksRef = <<>>
    /\ mediaStreamRef = 0
    /\ isLoadingTranscription = FALSE
    /\ transcription = NoText
    /\ isLoadingTranslation = FALSE
    /\ selectedLanguage = NoLanguage
    /\ translations = <<>>
    /\ appError = ""
    /\ isDropdownOpen = FALSE
    /\ micPending = 0
    /\ streams = <<>>
    /\ recorders = <<>>
    /\ transcribing = {}
    /\ translating = {}
    /\ nTranscriptions = 0
    /\ nTranslations = 0

Started == Len(streams) + micPending + nTranscriptions + nTranslations + nGenerations

\* The cards are rendered from translations: emptying the list unmounts them.
CardsCleared == IF translations # <<>> THEN Unmount ELSE UNCHANGED <<cardVars, orphaned>>

\* cleanupRecording: the tracks of the stream mediaStreamRef holds are stopped ...
StreamsAfterCleanup ==
    IF mediaStreamRef # 0 THEN [streams EXCEPT ![mediaStreamRef] = "stopped"] ELSE streams

\* ... and a recorder whose stream's tracks have all ended is stopped by the
\* browser, which queues its dataavailable and stop events.
RecordersAfterCleanup(recs) ==
    [i \in DOMAIN recs |->
        IF i = mediaStreamRef /\ recs[i] = "recording" THEN "stopping" ELSE recs[i]]

\* The record button calls handleStartRecording when isRecording is false:
\* resetState(), the two setters, and the getUserMedia call that is awaited.
handleStartRecording ==
    /\ ~isRecording
    /\ Started < MaxStarted
    /\ audioFile' = NoFile
    /\ transcription' = NoText
    /\ translations' = <<>>
    /\ selectedLanguage' = NoLanguage
    /\ appError' = ""
    /\ isRecording' = TRUE
    /\ micPending' = micPending + 1
    /\ CardsCleared
    /\ UNCHANGED <<mediaRecorderRef, audioChunksRef, mediaStreamRef, streams, recorders,
                   isDropdownOpen, transcriptionVars, translationVars, codec>>

\* getUserMedia resolves: the stream and a new recorder are stored in the refs
\* and the recorder is started.
MicGranted ==
    /\ micPending > 0
    /\ micPending' = micPending - 1
    /\ streams' = Append(streams, "live")
    /\ recorders' = Append(recorders, "recording")
    /\ mediaStreamRef' = Len(streams) + 1
    /\ mediaRecorderRef' = Len(streams) + 1
    /\ UNCHANGED <<audioFile, transcription, selectedLanguage, translations, appError,
                   isDropdownOpen, isRecording, audioChunksRef, transcriptionVars,
                   translationVars, cardVars, orphaned, codec>>

\* getUserMedia rejects: the catch of handleStartRecording.
MicDenied ==
    /\ micPending > 0
    /\ micPending' = micPending - 1
    /\ appError' = MicrophoneMessage
    /\ isRecording' = FALSE
    /\ streams' = StreamsAfterCleanup
    /\ recorders' = RecordersAfterCleanup(recorders)
    /\ mediaStreamRef' = 0
    /\ mediaRecorderRef' = 0
    /\ audioChunksRef' = <<>>
    /\ UNCHANGED <<audioFile, transcription, selectedLanguage, translations,
                   isDropdownOpen, transcriptionVars, translationVars, cardVars,
                   orphaned, codec>>

\* The record button calls handleStopRecording when isRecording is true.  With
\* no recorder in the ref the handler returns.  stop() on a recorder that is
\* already inactive either throws InvalidStateError, which ends the handler, or
\* does nothing, depending on the browser.
handleStopRecording ==
    /\ isRecording
    /\ \/ /\ mediaRecorderRef = 0
          /\ UNCHANGED <<isRecording, recorders>>
       \/ /\ mediaRecorderRef # 0
          /\ recorders[mediaRecorderRef] = "recording"
          /\ recorders' = [recorders EXCEPT ![mediaRecorderRef] = "stopping"]
          /\ isRecording' = FALSE
       \/ /\ mediaRecorderRef # 0
          /\ recorders[mediaRecorderRef] # "recording"
          /\ isRecording' \in {isRecording, FALSE}
          /\ UNCHANGED recorders
    /\ UNCHANGED <<audioFile, transcription, selectedLanguage, translations, appError,
                   isDropdownOpen, mediaRecorderRef, audioChunksRef, mediaStreamRef,
                   micPending, streams, transcriptionVars, translationVars, cardVars, orphaned,
                   codec>>

\* The task a stopped recorder queues: its dataavailable event, whose handler
\* pushes the chunk, then its stop event, whose handler builds the file from
\* the chunks in audioChunksRef and calls cleanupRecording.
RecorderStopped(r) ==
    /\ recorders[r] = "stopping"
    /\ audioFile' = Recorded(Append(audioChunksRef, r))
    /\ streams' = StreamsAfterCleanup
    /\ recorders' = RecordersAfterCleanup([recorders EXCEPT ![r] = "inactive"])
    /\ mediaStreamRef' = 0
    /\ mediaRecorderRef' = 0
    /\ audioChunksRef' = <<>>
    /\ UNCHANGED <<transcription, selectedLanguage, translations, appError,
                   isDropdownOpen, isRecording, micPending, transcriptionVars,
                   translationVars, cardVars, orphaned, codec>>

RecorderStop == \E r \in DOMAIN recorders : RecorderStopped(r)

\* Faulty variant: handleFileChange aborting the transcription in flight
handleFileChangeAborting(name) ==
    /\ ~isRecording
    /\ transcription' = NoText
    /\ translations' = <<>>
    /\ selectedLanguage' = NoLanguage
    /\ appError' = ""
    /\ audioFile' = Upload(name)
    /\ transcribing' = {}
    /\ isLoadingTranscription' = FALSE
    /\ CardsCleared
    /\ UNCHANGED <<isDropdownOpen, recordingVars, nTranscriptions, translationVars,
                   codec>>

\* The file input, disabled while recording: resetState(false), setAudioFile.
handleFileChange(name) ==
    /\ ~isRecording
    /\ transcription' = NoText
    /\ translations' = <<>>
    /\ selectedLanguage' = NoLanguage
    /\ appError' = ""
    /\ audioFile' = Upload(name)
    /\ CardsCleared
    /\ UNCHANGED <<isDropdownOpen, recordingVars, transcriptionVars, translationVars,
                   codec>>

FileChange == \E name \in FileNames : handleFileChange(name)

TranscribeButtonEnabled ==
    audioFile # NoFile /\ ~isLoadingTranscription /\ ~isRecording

\* handleBatchTranscription up to the await: the request carries the file the
\* handler closed over.
handleBatchTranscription ==
    /\ TranscribeButtonEnabled
    /\ Started < MaxStarted
    /\ isLoadingTranscription' = TRUE
    /\ transcription' = NoText
    /\ translations' = <<>>
    /\ selectedLanguage' = NoLanguage
    /\ appError' = ""
    /\ transcribing' = transcribing \cup {audioFile}
    /\ nTranscriptions' = nTranscriptions + 1
    /\ CardsCleared
    /\ UNCHANGED <<audioFile, isDropdownOpen, recordingVars, translationVars, codec>>

\* Faulty variant: handleBatchTranscription clearing its flag in the try block
\* instead of a finally
TranscriptionSettleNoFinally(file, kind) ==
    /\ file \in transcribing
    /\ transcribing' = transcribing \ {file}
    /\ transcription' = IF kind = "text" THEN TextOf(file)
                        ELSE IF kind = "empty" THEN NoText ELSE transcription
    /\ appError' = IF kind = "reject" THEN TranscribeFailedMessage ELSE appError
    /\ isLoadingTranscription' = (kind = "reject")
    /\ UNCHANGED <<audioFile, selectedLanguage, translations, isDropdownOpen,
                   nTranscriptions, recordingVars, translationVars, cardVars, orphaned,
                   codec>>

\* The rest of handleBatchTranscription: the text of the file sent (which may be
\* empty), or the service's error; the finally clears the flag.
TranscriptionSettle(file, kind) ==
    /\ file \in transcribing
    /\ transcribing' = transcribing \ {file}
    /\ transcription' = IF kind = "text" THEN TextOf(file)
                        ELSE IF kind = "empty" THEN NoText ELSE transcription
    /\ appError' = IF kind = "reject" THEN TranscribeFailedMessage ELSE appError
    /\ isLoadingTranscription' = FALSE
    /\ UNCHANGED <<audioFile, selectedLanguage, translations, isDropdownOpen,
                   nTranscriptions, recordingVars, translationVars, cardVars, orphaned,
                   codec>>

TranscriptionResponse ==
    \E file \in transcribing, kind \in {"text", "empty", "reject"} :
        TranscriptionSettle(file, kind)

\* The language section is rendered only with a transcription.
ToggleDropdown ==
    /\ ~transcription.empty
    /\ isDropdownOpen' = ~isDropdownOpen
    /\ UNCHANGED <<audioFile, transcription, selectedLanguage, translations, appError,
                   recordingVars, transcriptionVars, translationVars, cardVars,
                   orphaned, codec>>

handleLanguageSelect(lang) ==
    /\ ~transcription.empty
    /\ isDropdownOpen
    /\ selectedLanguage' = lang
    /\ isDropdownOpen' = FALSE
    /\ UNCHANGED <<audioFile, transcription, translations, appError, recordingVars,
                   transcriptionVars, translationVars, cardVars, orphaned, codec>>

LanguageSelect == \E lang \in Languages : handleLanguageSelect(lang)

TranslateButtonEnabled ==
    ~transcription.empty /\ ~isLoadingTranslation /\ selectedLanguage # NoLanguage

\* handleTranslate up to the await: the request carries the text and the
\* language the handler closed over.
handleTranslate ==
    /\ TranslateButtonEnabled
    /\ Started < MaxStarted
    /\ isLoadingTranslation' = TRUE
    /\ appError' = ""
    /\ translations' = <<>>
    /\ translating' = translating \cup {Translation(transcription, selectedLanguage)}
    /\ nTranslations' = nTranslations + 1
    /\ CardsCleared
    /\ UNCHANGED <<audioFile, transcription, selectedLanguage, isDropdownOpen,
                   recordingVars, transcriptionVars, codec>>

\* The rest of handleTranslate: the list the service answered (one translation,
\* or none), or its error; the finally clears the flag.
TranslationSettle(req, kind) ==
    /\ req \in translating
    /\ translating' = translating \ {req}
    /\ translations' = IF kind = "list" THEN <<req>>
                       ELSE IF kind = "empty" THEN <<>> ELSE translations
    /\ appError' = IF kind = "reject" THEN TranslateFailedMessage ELSE appError
    /\ isLoadingTranslation' = FALSE
    /\ UNCHANGED <<audioFile, transcription, selectedLanguage, isDropdownOpen,
                   nTranslations, recordingVars, transcriptionVars, cardVars, orphaned, codec>>

TranslationResponse ==
    \E req \in translating, kind \in {"list", "empty", "reject"} :
        TranslationSettle(req, kind)

\* The card of a translation shown: its generate button and the answers to its
\* requests.
CardGenerate ==
    /\ translations # <<>>
    /\ Started < MaxStarted
    /\ ClickGenerate

\* The answers drawn for the card of the App: a rejection, or two samples.
CardResponses ==
    {r \in Responses : r.kind = "reject" \/ (r.kind = "audio" /\ r.pcm = <<1, 255>>)}

CardSpeechResponse ==
    /\ translations # <<>>
    /\ \E resp \in CardResponses : GenerateSettle(resp)

-----------------------------------------------------------------------------
(* Specifications *)

Init == CardInit /\ codec = CodecIdle /\ AppInit

Next ==
    \/ ClickGenerate
    \/ SpeechResponse
    \/ handlePlayAudio
    \/ PlayStart
    \/ PlayReadFailed
    \/ PlayEnded
    \/ CardRemount
    \/ OrphanResponse

Spec == Init /\ [][Next]_vars

\* The browser settles every read of a blob, and a started source ends; nothing
\* obliges the user to click or the service to answer.
FairSpec ==
    /\ Init
    /\ [][Next]_vars
    /\ WF_vars(PlayStart \/ PlayReadFailed)
    /\ WF_vars(PlayEnded)

RaceNext == CallGenerate \/ RaceSpeechResponse

RaceSpec == Init /\ [][RaceNext]_vars

CodecInit == CardInit /\ codec \in CodecInputs /\ AppInit

CodecNext == CodecDecodeBase64 \/ CodecConvert \/ CodecEncode \/ CodecPlayback

CodecSpec == CodecInit /\ [][CodecNext]_vars

AppNext ==
    \/ handleStartRecording
    \/ MicGranted
    \/ MicDenied
    \/ handleStopRecording
    \/ RecorderStop
    \/ FileChange
    \/ handleBatchTranscription
    \/ TranscriptionResponse
    \/ ToggleDropdown
    \/ LanguageSelect
    \/ handleTranslate
    \/ TranslationResponse
    \/ CardGenerate
    \/ CardSpeechResponse
    \/ OrphanResponse

AppSpec == Init /\ [][AppNext]_vars

-----------------------------------------------------------------------------
(* Reading a container back, for the properties *)

\* little-endian fields at a zero-based byte offset
ReadU16(b, off) == b[off + 1] + 256 * b[off + 2]
ReadU32(b, off) ==
    b[off + 1] + 256 * b[off + 2] + 65536 * b[off + 3] + 16777216 * b[off + 4]

IsEven(n) == n % 2 = 0
Encoded == codec.stage \in {"wav", "played"}
Converted == codec.stage \in {"samples", "wav", "played"}

-----------------------------------------------------------------------------
(* Properties of the codec (CodecSpec) *)

\* C1: decoding the container of a sample buffer P (skip 44 bytes, view the rest
\* as little-endian Int16, as handlePlayAudio does) gives back exactly P, for
\* every sample rate and channel count the container was encoded with.
C1_RoundTrip ==
    codec.stage = "played" =>
        /\ Len(codec.pcmInt16) = Len(codec.pcmDataInt16)
        /\ codec.pcmInt16 = codec.pcmDataInt16

C1_Witness ==
    /\ codec.stage = "played"
    /\ codec.numChannels = 2
    /\ codec.pcmDataInt16 = <<-1, -32768>>
    /\ codec.pcmInt16 = <<-1, -32768>>

\* C2: the header of the container of n samples at rate R with C channels
\* declares, little-endian, RIFF size 36 + data size, format 1, C channels, rate R,
\* byte rate R*C*2, block align C*2, 16 bits and data size n*C*2; the container
\* the handler builds (24000 Hz, mono) declares data size 2n.
C2_Header ==
    Encoded =>
        LET n == Len(codec.pcmDataInt16)
            r == codec.sampleRate
            c == codec.numChannels
            w == codec.wav
        IN  /\ r > 0 /\ c > 0
            /\ ReadU32(w, 4) = 36 + ReadU32(w, 40)
            /\ ReadU16(w, 20) = 1
            /\ ReadU16(w, 22) = c
            /\ ReadU32(w, 24) = r
            /\ ReadU32(w, 28) = r * c * 2
            /\ ReadU16(w, 32) = c * 2
            /\ ReadU16(w, 34) = 16
            /\ ReadU32(w, 40) = n * c * 2
            /\ ReadU16(codec.blob, 22) = 1
            /\ ReadU32(codec.blob, 24) = 24000
            /\ ReadU32(codec.blob, 40) = 2 * n
            /\ ReadU32(codec.blob, 4) = 36 + 2 * n

C2_Witness ==
    /\ codec.stage = "wav"
    /\ Len(codec.pcmDataInt16) = 2
    /\ codec.sampleRate = 8000
    /\ codec.numChannels = 2
    /\ ReadU32(codec.wav, 40) = 8
    /\ ReadU32(codec.wav, 28) = 32000
    /\ ReadU32(codec.blob, 40) = 4

\* C3: an even-length byte sequence B converts to len(B)/2 samples, sample i being
\* the signed 16-bit value of B[2i] + 256*B[2i+1] (the value in -32768..32767
\* congruent to it modulo 65536); FF FF is -1 and 00 80 is -32768.
C3_Samples ==
    Converted =>
        LET b == codec.pcmDataUint8
            p == codec.pcmDataInt16
        IN  /\ IsEven(Len(b))
            /\ 2 * Len(p) = Len(b)
            /\ \A i \in 1..Len(p) :
                 LET u == b[2 * i - 1] + 256 * b[2 * i]
                 IN  /\ p[i] \in -32768..32767
                     /\ p[i] = u \/ p[i] = u - 65536
            /\ (b = <<255, 255>> => p = <<-1>>)
            /\ (b = <<0, 128>> => p = <<-32768>>)

C3_Witness ==
    /\ codec.stage = "samples"
    /\ codec.pcmDataUint8 = <<0, 128, 255, 255>>
    /\ codec.pcmDataInt16 = <<-32768, -1>>

-----------------------------------------------------------------------------
(* Properties of the card (Spec) *)

OddPayload(resp) == resp.kind = "audio" /\ ~IsEven(Len(resp.pcm))

\* C5: when the service returns an odd number of PCM bytes the generation ends
\* with MalformedAudioError shown, audioInfo null, and nothing built from a
\* prefix of the bytes stored.
C5_OddLength ==
    OddPayload(lastResp) =>
        /\ audioInfo = Null
        /\ lastOutcome = "failed"
        /\ (inflight = 0 => /\ error = "MalformedAudioError"
                            /\ ~isGeneratingAudio)

C5_Witness ==
    /\ lastResp.kind = "audio"
    /\ lastResp.pcm = <<1>>
    /\ inflight = 0
    /\ error = "MalformedAudioError"
    /\ audioInfo = Null

\* C6: audioInfo is non-null only when the most recent generation got audio from
\* the service and decoded, converted and encoded all of it (the artifact carries
\* the whole payload, and no error is shown with it); a generation that failed
\* leaves audioInfo null and, once ended, a non-empty error.
C6_NoPartialArtifact ==
    /\ ~audioInfo.isNull =>
         /\ inflight = 0
         /\ lastOutcome = "ok"
         /\ lastResp.kind = "audio"
         /\ IsEven(Len(lastResp.pcm))
         /\ Len(audioInfo.blob) = 44 + Len(lastResp.pcm)
         /\ PcmData(audioInfo.blob) = lastResp.pcm
         /\ error = ""
    /\ lastOutcome = "failed" =>
         /\ audioInfo.isNull
         /\ (inflight = 0 => error # "")

C6_Witness ==
    /\ ~audioInfo.isNull
    /\ nGenerations = 2
    /\ lastOutcome = "ok"
    /\ lastResp.pcm = <<255, 255>>

\* C7: the error shown after a failure of the service is the error the service
\* call raised: the rejection's own message, or the message thrown for a response
\* without audio data.
C7_ErrorUnchanged ==
    (inflight = 0 /\ lastOutcome = "failed") =>
        /\ (lastResp.kind = "reject" => error = lastResp.err)
        /\ (lastResp.kind = "noaudio" => error = NoAudioMessage)

\* C8 as stated: the number of service requests always equals the number of
\* generations the user triggered.
C8_RequestPerGeneration == nRequests = nGenerations

\* C8, amended: every generation issues one request, except one in which creating
\* the audio context throws, which issues none; no answer, failed or not, issues
\* another; so requests = generations - context failures, all of them either
\* outstanding or answered once.
C8_NoRetry ==
    /\ nRequests = nGenerations - nContextFailures
    /\ nRequests <= nGenerations
    /\ inflight \in 0..1
    /\ (inflight = 1) = isGeneratingAudio

C8_Witness ==
    /\ nGenerations = 3
    /\ nContextFailures = 1
    /\ nRequests = 2
    /\ inflight = 0
    /\ lastOutcome = "failed"
    /\ lastResp.kind = "reject"

\* what the card shows when only the response resp has written to it
ShowsOnly(resp) ==
    LET result == GenerateTry(resp)
    IN  IF result.ok
        THEN ~audioInfo.isNull /\ audioInfo.blob = result.val /\ error = ""
        ELSE audioInfo.isNull /\ error = result.err

C10_RetryAfterFailure ==
    /\ (lastOutcome = "failed" /\ inflight = 0) =>
         /\ ~isGeneratingAudio
         /\ audioInfo.isNull
         /\ error # ""
         /\ GenerateButtonEnabled
    /\ inflight > 0 => error = ""

C10_Witness ==
    /\ lastOutcome = "failed"
    /\ lastResp.kind = "reject"
    /\ inflight = 1
    /\ error = ""
    /\ nGenerations = 2

-----------------------------------------------------------------------------
(* Further properties of the card and the codec *)

\* C12 (Spec): over all card instances and every interleaving of generation and
\* playback, at most one AudioContext is ever constructed, by a
\* handleGenerateAudio that found none and went on to its request; once set the
\* module-level audioContext is never replaced or reset, so an artifact or a
\* playback on a card implies that the context exists.
C12_SingleContext ==
    /\ nContexts <= 1
    /\ (audioContext # "null") = (nContexts = 1)
    /\ (nContexts = 1) = (nRequests > 0)
    /\ ~audioInfo.isNull => audioContext # "null"
    /\ playback.pc # "idle" => audioContext # "null"

C12_Witness ==
    /\ nContexts = 1
    /\ nRequests = 3
    /\ audioContext = "AudioContext"
    /\ ~audioInfo.isNull
    /\ playback.pc = "playing"

\* C13 (RaceSpec): handleGenerateAudio clears audioInfo and error before its
\* request, so while isGeneratingAudio is true there is no artifact (of this or of
\* an earlier generation) to play or download, and no error shown.
C13_ArtifactDiscarded ==
    isGeneratingAudio =>
        /\ audioInfo.isNull
        /\ ~PlayButtonEnabled
        /\ error = ""

C13_Witness ==
    /\ isGeneratingAudio
    /\ lastOutcome = "ok"
    /\ audioInfo.isNull
    /\ inflight = 1

\* C14 (Spec): a payload that is not base64 (a character outside the alphabet, or
\* a length that is no multiple of 4) makes the decoder fail with DecodeError and
\* no bytes, and the generation end with audioInfo null and that error shown; a
\* base64 payload never ends in DecodeError.
C14_DecodeError ==
    /\ lastResp.kind = "garbled" =>
         /\ IllFormedBase64(lastResp.data)
         /\ decodeBase64(lastResp.data) = Err("DecodeError")
         /\ lastOutcome = "failed"
         /\ audioInfo.isNull
         /\ (inflight = 0 => error = "DecodeError")
    /\ lastResp.kind = "audio" =>
         /\ ~IllFormedBase64(lastResp.data)
         /\ decodeBase64(lastResp.data).ok
         /\ Len(decodeBase64(lastResp.data).val) = Len(lastResp.pcm)
         /\ error # "DecodeError"

C14_Witness ==
    /\ lastResp.kind = "garbled"
    /\ lastResp.data = <<0, PadSym, 0, 0>>
    /\ inflight = 0
    /\ error = "DecodeError"
    /\ audioInfo.isNull

\* C15 (CodecSpec): the encoder refuses its arguments, with
\* InvalidAudioParametersError, exactly when the rate or the channel count is not
\* positive, and fails in no other way; the handler's own call (24000, 1) never
\* raises it.
C15_InvalidParameters ==
    /\ codec.stage \in {"wav", "played", "invalid"} =>
         (codec.stage = "invalid") = (codec.sampleRate <= 0 \/ codec.numChannels <= 0)
    /\ codec.stage = "invalid" => codec.err = "InvalidAudioParametersError"
    /\ codec.stage = "failed" => codec.err \in {"DecodeError", "MalformedAudioError"}
    /\ codec.stage = "wav" => codec.err = ""

C15_Witness ==
    /\ codec.stage = "invalid"
    /\ codec.sampleRate = 24000
    /\ codec.numChannels = 0
    /\ codec.err = "InvalidAudioParametersError"
    /\ codec.pcmDataInt16 = <<1, 2>>

\* C16 (CodecSpec): each amplitude written to the playback buffer is the sample
\* over 32768, so it lies in [-1, 1): -32768 gives exactly -1 and 32767 gives
\* 32767/32768; the buffer has (container length - 44) / 2 samples.
C16_Normalization ==
    (codec.stage = "played" /\ codec.err = "") =>
        /\ 2 * Len(codec.channelData) = Len(codec.wav) - 44
        /\ \A i \in 1..Len(codec.channelData) :
             LET a == codec.channelData[i]
                 sample == codec.pcmDataInt16[i]
             IN  /\ a.den > 0
                 /\ a.num * 32768 = sample * a.den
                 /\ -a.den <= a.num /\ a.num < a.den
                 /\ (sample = -32768 => a = [num |-> -1, den |-> 1])
                 /\ (sample = 32767 => a = [num |-> 32767, den |-> 32768])

C16_Witness ==
    /\ codec.stage = "played"
    /\ codec.pcmDataInt16 = <<-32768, 32767>>
    /\ codec.channelData = <<[num |-> -1, den |-> 1], [num |-> 32767, den |-> 32768]>>

-----------------------------------------------------------------------------
(* Properties of the App (AppSpec) *)

C17_StopAvailable ==
    (isRecording /\ micPending = 0) =>
        /\ mediaRecorderRef # 0
        /\ recorders[mediaRecorderRef] = "recording"

\* C18 (AppSpec): whenever isRecording is false and no recorder's stop event is
\* pending, every stream obtained has its tracks stopped, both refs are null and
\* no chunk is kept; a recorded file holds the chunk of one recorder only.
C18_MicrophoneReleased ==
    /\ (~isRecording /\ \A r \in DOMAIN recorders : recorders[r] # "stopping") =>
         /\ \A i \in DOMAIN streams : streams[i] = "stopped"
         /\ mediaStreamRef = 0
         /\ mediaRecorderRef = 0
         /\ audioChunksRef = <<>>
    /\ audioFile.kind = "recording" => Len(audioFile.chunks) = 1

\* C19 (AppSpec): whenever translations is not empty, each entry is the
\* translation of the transcription shown into the language selected; so the
\* transcription is not empty and a language is selected.
C19_TranslationsCurrent ==
    translations # <<>> =>
        /\ ~transcription.empty
        /\ selectedLanguage # NoLanguage
        /\ \A i \in 1..Len(translations) :
             translations[i] = Translation(transcription, selectedLanguage)

\* C20 (AppSpec): whenever transcription is not empty, it is the transcription
\* of the file audioFile holds.
C20_TranscriptionCurrent ==
    ~transcription.empty => transcription = TextOf(audioFile)

-----------------------------------------------------------------------------
(* Loading flags (AppSpec) *)

-----------------------------------------------------------------------------
(* Properties of playback (FairSpec) *)

\* C21 (FairSpec): once handlePlayAudio has set isPlaying, isPlaying returns to
\* false, whatever the outcome of the read, of the buffer and of the start.
C21_PlaybackEnds == isPlaying ~> ~isPlaying

====
